---------------------------- MODULE Spec2Model ----------------------------
(***************************************************************************)
(* Model of the vibe-password-api core (src/src/password.ts) and of the    *)
(* POST /strength handler (src/src/index.ts).                              *)
(*                                                                         *)
(* A JavaScript string is modelled as the sequence of its characters, each *)
(* character a one-character TLA+ string.  Every call is stateless, so the *)
(* state is the last call made (call) and what it returned (ret).          *)
(*                                                                         *)
(* crypto.randomInt is the only source of nondeterminism.  Its outcomes    *)
(* are supplied by a tape of selectors: the k-th draw of a call reads the  *)
(* k-th tape cell (cyclically) and the selector picks one of RandPoints    *)
(* evenly spread indexes of the requested range, first and last included.  *)
(***************************************************************************)
EXTENDS Integers, Sequences, FiniteSets, TLC

VARIABLES call, ret

vars == <<call, ret>>

(* ------------------------------ bounds --------------------------------- *)

\* number of indexes of [0, n) a random draw is sampled at
RandPoints == 3
\* period of the tape of random selectors
TapeLen == 5
\* period of the tape of random selectors used for a batch
BatchTapeLen == 2
\* the longest password length requested explicitly
MaxLength == 5

(* ----------------------------- utilities ------------------------------- *)

Max(a, b) == IF a >= b THEN a ELSE b
Min(a, b) == IF a <= b THEN a ELSE b

Range(s) == {s[i] : i \in 1..Len(s)}

\* String.prototype.replace(/[...]/g, ''): drop every character of the set
RECURSIVE Remove(_, _)
Remove(chars, set) ==
    IF chars = <<>> THEN <<>>
    ELSE IF Head(chars) \in set THEN Remove(Tail(chars), set)
    ELSE <<Head(chars)>> \o Remove(Tail(chars), set)

(* ------------------------- character catalog --------------------------- *)

CHARS ==
    [uppercase |-> <<"A","B","C","D","E","F","G","H","I","J","K","L","M",
                     "N","O","P","Q","R","S","T","U","V","W","X","Y","Z">>,
     lowercase |-> <<"a","b","c","d","e","f","g","h","i","j","k","l","m",
                     "n","o","p","q","r","s","t","u","v","w","x","y","z">>,
     numbers   |-> <<"0","1","2","3","4","5","6","7","8","9">>,
     symbols   |-> <<"!","@","#","$","%","^","&","*","(",")","_","+","-",
                     "=","[","]","{","}","|",";",":",",",".","<",">","?">>,
     ambiguous |-> <<"I","l","1","O","0">>]

(* ------------------------ secure random primitive ---------------------- *)

Selectors == 0..(RandPoints - 1)
Tapes == [1..TapeLen -> Selectors]
BatchTapes == [1..BatchTapeLen -> Selectors]

\* the selector of the k-th draw (k >= 1)
Draw(tape, k) == tape[((k - 1) % Len(tape)) + 1]

\* crypto.randomInt(0, n), n >= 1: an index of 0..n-1
RandomInt(sel, n) == (sel * (n - 1)) \div (RandPoints - 1)

secureRandomChar(chars, sel) == chars[RandomInt(sel, Len(chars)) + 1]

\* [result[i], result[j]] = [result[j], result[i]] (1-based here)
Swap(result, i, j) == [result EXCEPT ![i] = result[j], ![j] = result[i]]

\* the Fisher-Yates loop at 0-based index i; k is the number of the next draw
RECURSIVE ShuffleFrom(_, _, _, _)
ShuffleFrom(result, i, tape, k) ==
    IF i > 0
    THEN LET j == RandomInt(Draw(tape, k), i + 1)
         IN  ShuffleFrom(Swap(result, i + 1, j + 1), i - 1, tape, k + 1)
    ELSE result

secureShuffleArray(array, tape, k) == ShuffleFrom(array, Len(array) - 1, tape, k)

(* --------------------------- generatePassword -------------------------- *)

\* destructuring with defaults: const { length = 16, uppercase = true, ... }
DefaultLength == 16
Resolve(options) ==
    LET get(f, d) == IF f \in DOMAIN options THEN options[f] ELSE d
    IN  [length           |-> get("length", DefaultLength),
         uppercase        |-> get("uppercase", TRUE),
         lowercase        |-> get("lowercase", TRUE),
         numbers          |-> get("numbers", TRUE),
         symbols          |-> get("symbols", TRUE),
         excludeAmbiguous |-> get("excludeAmbiguous", FALSE)]

\* the effective charset of each class
UpperChars(o) ==
    IF o.excludeAmbiguous THEN Remove(CHARS.uppercase, {"I", "O"}) ELSE CHARS.uppercase
LowerChars(o) ==
    IF o.excludeAmbiguous THEN Remove(CHARS.lowercase, {"l"}) ELSE CHARS.lowercase
NumberCharsUnfiltered(o) == CHARS.numbers
NumberChars(o) ==
    IF o.excludeAmbiguous THEN Remove(CHARS.numbers, {"0", "1"}) ELSE CHARS.numbers
SymbolChars(o) == CHARS.symbols

\* one "if (class) { charset += chars; required.push(secureRandomChar(chars)) }"
\* block: s is the pair (charset, required) built so far, base the number of
\* draws made before this call
AddClassNoRequired(s, enabled, chars, tape, base) ==
    IF enabled THEN [charset |-> s.charset \o chars, required |-> s.required] ELSE s
AddClassAlwaysRequired(s, enabled, chars, tape, base) ==
    [charset  |-> IF enabled THEN s.charset \o chars ELSE s.charset,
     required |-> Append(s.required,
                    secureRandomChar(chars, Draw(tape, base + Len(s.required) + 1)))]
AddClass(s, enabled, chars, tape, base) ==
    IF enabled
    THEN [charset  |-> s.charset \o chars,
          required |-> Append(s.required,
                         secureRandomChar(chars, Draw(tape, base + Len(s.required) + 1)))]
    ELSE s

BuildCharset(o, tape, base) ==
    LET s0 == [charset |-> <<>>, required |-> <<>>]
        s1 == AddClass(s0, o.uppercase, UpperChars(o), tape, base)
        s2 == AddClass(s1, o.lowercase, LowerChars(o), tape, base)
        s3 == AddClass(s2, o.numbers, NumberChars(o), tape, base)
        s4 == AddClass(s3, o.symbols, SymbolChars(o), tape, base)
    IN  s4

\* for (let i = required.length; i < minLength; i++) remaining.push(...);
\* k is the number of the next draw
RECURSIVE RemainingLoop(_, _, _, _, _)
RemainingLoop(i, minLength, charset, tape, k) ==
    IF i < minLength
    THEN <<secureRandomChar(charset, Draw(tape, k))>>
             \o RemainingLoop(i + 1, minLength, charset, tape, k + 1)
    ELSE <<>>

RemainingFromZero(required, minLength, charset, tape, base) ==
    RemainingLoop(0, minLength, charset, tape, base + Len(required) + 1)
Remaining(required, minLength, charset, tape, base) ==
    RemainingLoop(Len(required), minLength, charset, tape, base + Len(required) + 1)

NoClassMessage == "At least one character type must be enabled"

\* generatePassword(options); draws counts the crypto.randomInt calls made
generatePassword(options, tape, base) ==
    LET o == Resolve(options)
        s == BuildCharset(o, tape, base)
    IN  IF Len(s.charset) = 0
        THEN [kind |-> "error", message |-> NoClassMessage,
              draws |-> Len(s.required)]
        ELSE LET minLength == Max(o.length, Len(s.required))
                 remaining == Remaining(s.required, minLength, s.charset, tape, base)
                 allChars  == s.required \o remaining
             IN  [kind     |-> "ok",
                  password |-> secureShuffleArray(allChars, tape,
                                                  base + Len(allChars) + 1),
                  draws    |-> Len(allChars) + Max(0, Len(allChars) - 1)]

(* ----------------------------- generateBatch --------------------------- *)

\* const maxCount = Math.min(count, 100)
BatchLimit == 100
MaxCountUnclamped(count) == count
MaxCount(count) == Min(count, BatchLimit)

\* for (let i = 0; i < maxCount; i++) passwords.push(generatePassword(options));
\* the iterations i..j-1 of the loop, run in order; k is the number of draws
\* made before iteration i.  The range is halved only to keep the evaluation
\* shallow: the left half runs first and hands its draw count to the right
\* half.  An exception thrown by generatePassword ends the loop and the call.
RECURSIVE BatchLoop(_, _, _, _, _)
BatchLoop(i, j, options, tape, k) ==
    IF i >= j THEN [kind |-> "ok", passwords |-> <<>>, draws |-> k]
    ELSE IF j = i + 1
    THEN LET r == generatePassword(options, tape, k)
         IN  IF r.kind = "error"
             THEN [kind |-> "error", message |-> r.message, draws |-> k + r.draws]
             ELSE [kind |-> "ok", passwords |-> <<r.password>>, draws |-> k + r.draws]
    ELSE LET mid  == (i + j) \div 2
             left == BatchLoop(i, mid, options, tape, k)
         IN  IF left.kind = "error" THEN left
             ELSE LET right == BatchLoop(mid, j, options, tape, left.draws)
                  IN  IF right.kind = "error" THEN right
                      ELSE [kind      |-> "ok",
                            passwords |-> left.passwords \o right.passwords,
                            draws     |-> right.draws]

generateBatch(count, options, tape) ==
    BatchLoop(0, MaxCount(count), options, tape, 0)

(* ---------------------------- analyzeStrength -------------------------- *)

\* the character classes of the regular expressions
LowerAZ == Range(CHARS.lowercase)
UpperAZ == Range(CHARS.uppercase)
Digit09 == Range(CHARS.numbers)
\* /[!@#$%^&*()_+\-=\[\]{}|;:,.<>?]/
SymbolClass == {"!","@","#","$","%","^","&","*","(",")","_","+","-","=",
                "[","]","{","}","|",";",":",",",".","<",">","?"}
\* what "." does not match
LineTerminators == {"\n", "\r"}

HasAny(password, class) == \E i \in 1..Len(password) : password[i] \in class
AllIn(password, class) == \A i \in 1..Len(password) : password[i] \in class

\* the /i flag: an ASCII letter matches in either case
ToLower(c) ==
    IF c \in UpperAZ
    THEN CHARS.lowercase[CHOOSE i \in 1..Len(CHARS.uppercase) : CHARS.uppercase[i] = c]
    ELSE c
LowerCased(password) == [i \in 1..Len(password) |-> ToLower(password[i])]

Contains(password, pat) ==
    \E i \in 0..(Len(password) - Len(pat)) :
        SubSeq(password, i + 1, i + Len(pat)) = pat
ContainsAnyOf(password, pats) == \E pat \in pats : Contains(password, pat)

\* /(.)\1{2,}/
Repeated(password) ==
    \E i \in 1..(Len(password) - 2) :
        /\ password[i] \notin LineTerminators
        /\ password[i + 1] = password[i]
        /\ password[i + 2] = password[i]
\* /^[a-zA-Z]+$/
LettersOnly(password) == Len(password) > 0 /\ AllIn(password, LowerAZ \cup UpperAZ)
\* /^[0-9]+$/
DigitsOnly(password) == Len(password) > 0 /\ AllIn(password, Digit09)
\* /(?:abc|bcd|...|xyz|012|123|...|789)/i
SequentialRuns ==
    {SubSeq(CHARS.lowercase, i, i + 2) : i \in 1..24}
      \cup {SubSeq(CHARS.numbers, i, i + 2) : i \in 1..8}
SequentialNever(password) == FALSE
Sequential(password) == ContainsAnyOf(LowerCased(password), SequentialRuns)
\* /(?:qwert|asdf|zxcv)/i
KeyboardRuns == {<<"q","w","e","r","t">>, <<"a","s","d","f">>, <<"z","x","c","v">>}
Keyboard(password) == ContainsAnyOf(LowerCased(password), KeyboardRuns)

If(cond, n) == IF cond THEN n ELSE 0

\* the length scoring
LengthScoreExtraStep(password) ==
    If(Len(password) >= 8, 1) + If(Len(password) >= 12, 1)
      + If(Len(password) >= 16, 1) + If(Len(password) >= 20, 2)
LengthScore(password) ==
    If(Len(password) >= 8, 1) + If(Len(password) >= 12, 1)
      + If(Len(password) >= 16, 1) + If(Len(password) >= 20, 1)

\* the character variety scoring
VarietyScore(password) ==
    If(HasAny(password, LowerAZ), 1) + If(HasAny(password, UpperAZ), 1)
      + If(HasAny(password, Digit09), 1) + If(HasAny(password, SymbolClass), 1)

\* the penalties
Penalties(password) ==
    If(Len(password) < 8, 2) + If(Repeated(password), 1)
      + If(LettersOnly(password), 1) + If(DigitsOnly(password), 2)
      + If(Sequential(password), 1) + If(Keyboard(password), 1)

\* the value of score before it is normalized
ScoreSum(password) ==
    LengthScore(password) + VarietyScore(password) - Penalties(password)

\* score = Math.max(0, Math.min(10, score))
NormalizeUpperOnly(score) == Min(10, score)
Normalize(score) == Max(0, Min(10, score))

LevelOf(score) ==
    IF score <= 2 THEN "very_weak"
    ELSE IF score <= 4 THEN "weak"
    ELSE IF score <= 6 THEN "fair"
    ELSE IF score <= 8 THEN "strong"
    ELSE "very_strong"

Msg(cond, text) == IF cond THEN <<text>> ELSE <<>>

Feedback(password) ==
    LET pushed ==
            Msg(Len(password) < 8, "Password is too short (minimum 8 characters)")
         \o Msg(~HasAny(password, LowerAZ), "Add lowercase letters")
         \o Msg(~HasAny(password, UpperAZ), "Add uppercase letters")
         \o Msg(~HasAny(password, Digit09), "Add numbers")
         \o Msg(~HasAny(password, SymbolClass), "Add special characters")
         \o Msg(Repeated(password), "Avoid repeated characters")
         \o Msg(LettersOnly(password), "Mix in numbers and symbols")
         \o Msg(DigitsOnly(password), "Include letters and symbols")
         \o Msg(Sequential(password), "Avoid sequential patterns")
         \o Msg(Keyboard(password), "Avoid keyboard patterns")
    IN  IF Len(pushed) = 0 THEN <<"Password looks strong!">> ELSE pushed

CharsetSize(password) ==
    If(HasAny(password, LowerAZ), 26) + If(HasAny(password, UpperAZ), 26)
      + If(HasAny(password, Digit09), 10) + If(HasAny(password, SymbolClass), 32)

\* entropy = password.length * Math.log2(charsetSize || 1), kept exactly as
\* the pair (length, size): 2^entropy is size^length
Entropy(password) ==
    [length |-> Len(password),
     size   |-> IF CharsetSize(password) = 0 THEN 1 ELSE CharsetSize(password)]

\* Math.log2 of the charset sizes that occur, in millionths of a bit
Log2Micro(size) ==
    CASE size = 1 -> 0
      [] size = 10 -> 3321928
      [] size = 26 -> 4700440
      [] size = 32 -> 5000000
      [] size = 36 -> 5169925
      [] size = 42 -> 5392317
      [] size = 52 -> 5700440
      [] size = 58 -> 5857981
      [] size = 62 -> 5954196
      [] size = 68 -> 6087463
      [] size = 84 -> 6392317
      [] size = 94 -> 6554589

\* Math.round(entropy * 100) / 100, in hundredths of a bit
RoundedEntropy(e) == (e.length * Log2Micro(e.size) + 5000) \div 10000

(* natural numbers beyond 32 bits: little-endian sequences of base-10000 limbs *)

Base == 10000

RECURSIVE BigMulCarry(_, _, _)
BigMulCarry(b, m, carry) ==
    IF b = <<>>
    THEN IF carry = 0 THEN <<>>
         ELSE <<carry % Base>> \o BigMulCarry(<<>>, m, carry \div Base)
    ELSE LET v == Head(b) * m + carry
         IN  <<v % Base>> \o BigMulCarry(Tail(b), m, v \div Base)
\* b * m for 0 < m <= 100000
BigMul(b, m) == BigMulCarry(b, m, 0)

RECURSIVE BigMulAll(_, _)
BigMulAll(b, ms) == IF ms = <<>> THEN b ELSE BigMulAll(BigMul(b, Head(ms)), Tail(ms))

RECURSIVE BigAddCarry(_, _, _)
BigAddCarry(a, b, carry) ==
    IF a = <<>> /\ b = <<>>
    THEN IF carry = 0 THEN <<>> ELSE <<carry>>
    ELSE LET x == IF a = <<>> THEN 0 ELSE Head(a)
             y == IF b = <<>> THEN 0 ELSE Head(b)
             v == x + y + carry
         IN  <<v % Base>> \o BigAddCarry(IF a = <<>> THEN <<>> ELSE Tail(a),
                                         IF b = <<>> THEN <<>> ELSE Tail(b),
                                         v \div Base)
BigAdd(a, b) == BigAddCarry(a, b, 0)

\* quotient and remainder of b by d, 0 < d <= 100000
RECURSIVE BigDivRem(_, _)
BigDivRem(b, d) ==
    IF b = <<>> THEN [q |-> <<>>, r |-> 0]
    ELSE LET hi  == BigDivRem(Tail(b), d)
             cur == hi.r * Base + Head(b)
         IN  [q |-> <<cur \div d>> \o hi.q, r |-> cur % d]

RECURSIVE BigDivAll(_, _)
BigDivAll(b, ds) ==
    IF ds = <<>> THEN b ELSE BigDivAll(BigDivRem(b, Head(ds)).q, Tail(ds))

RECURSIVE BigPow(_, _)
BigPow(c, n) == IF n = 0 THEN <<1>> ELSE BigMul(BigPow(c, n - 1), c)

\* the value of b, or Cap when it is Cap or more
Cap == 100000
RECURSIVE BigValue(_)
BigValue(b) == IF b = <<>> THEN 0 ELSE Min(Cap, Head(b) + Base * BigValue(Tail(b)))

(* ---------------------------- estimateCrackTime ------------------------ *)

\* guessesPerSecond = 10_000_000_000, and the division by 2
GuessesTwice == <<2, 100000, 100000>>
SecondsPerDay == <<60, 60, 24>>
DaysPerYear == <<365>>

\* Math.round(combinations / guessesPerSecond / 2 / unit), unit the product of
\* the divisors in unit: the floor of (combinations + half) / (2 * half)
RoundedIn(combinations, unit) ==
    LET half == BigMulAll(<<1>>, <<100000, 100000>> \o unit)
    IN  BigValue(BigDivAll(BigAdd(combinations, half), GuessesTwice \o unit))

\* seconds < bound is floor(seconds) < bound for a whole bound
estimateCrackTime(entropy) ==
    LET combinations == BigPow(entropy.size, entropy.length)
        seconds == BigDivAll(combinations, GuessesTwice)
        whole(divisors) == BigValue(BigDivAll(seconds, divisors))
        years == SecondsPerDay \o DaysPerYear
    IN  IF whole(<<>>) < 1 THEN "instant"
        ELSE IF whole(<<>>) < 60
        THEN ToString(RoundedIn(combinations, <<>>)) \o " seconds"
        ELSE IF whole(<<>>) < 3600
        THEN ToString(RoundedIn(combinations, <<60>>)) \o " minutes"
        ELSE IF whole(<<>>) < 86400
        THEN ToString(RoundedIn(combinations, <<60, 60>>)) \o " hours"
        ELSE IF whole(SecondsPerDay) < 365
        THEN ToString(RoundedIn(combinations, SecondsPerDay)) \o " days"
        ELSE IF whole(years) < 100
        THEN ToString(RoundedIn(combinations, years)) \o " years"
        ELSE IF whole(years \o <<1000>>) < 1000
        THEN ToString(RoundedIn(combinations, years \o <<1000>>)) \o " thousand years"
        ELSE IF whole(years \o <<1000, 1000>>) < 1000
        THEN ToString(RoundedIn(combinations, years \o <<1000, 1000>>))
                 \o " million years"
        ELSE "billions of years"

\* password.substring(0, 3) + '*'.repeat(Math.max(0, password.length - 3))
KeepFirst == 3
MaskKeepFour(password) ==
    SubSeq(password, 1, Min(4, Len(password)))
        \o [i \in 1..Max(0, Len(password) - 4) |-> "*"]
Mask(password) ==
    SubSeq(password, 1, Min(KeepFirst, Len(password)))
        \o [i \in 1..Max(0, Len(password) - KeepFirst) |-> "*"]

analyzeStrength(password) ==
    LET score == Normalize(ScoreSum(password))
        entropy == Entropy(password)
    IN  [kind      |-> "ok",
         password  |-> Mask(password),
         score     |-> score,
         level     |-> LevelOf(score),
         feedback  |-> Feedback(password),
         entropy   |-> RoundedEntropy(entropy),
         crackTime |-> estimateCrackTime(entropy)]

(* --------------------------- POST /strength ---------------------------- *)

\* a value of the JSON body: its typeof and, for a string, its characters
IsString(v) == v.type = "string"
\* !password
Falsy(v) ==
    \/ v.type \in {"undefined", "null"}
    \/ v.type = "string" /\ Len(v.val) = 0
    \/ v.type = "number" /\ v.val = 0
    \/ v.type = "boolean" /\ ~v.val

\* if (!password || typeof password !== 'string')
PasswordRequiredTypeOnly(v) == ~IsString(v)
PasswordRequired(v) == Falsy(v) \/ ~IsString(v)

MaxPasswordLength == 1000

BadRequest(message) ==
    [kind |-> "response", status |-> 400,
     body |-> [success |-> FALSE, error |-> message]]

postStrength(v) ==
    IF PasswordRequired(v) THEN BadRequest("Password is required")
    ELSE IF Len(v.val) > MaxPasswordLength
    THEN BadRequest("Password too long (max 1000 characters)")
    ELSE LET result == analyzeStrength(v.val)
         IN  [kind |-> "response", status |-> 200,
              body |-> [success   |-> TRUE,
                        password  |-> result.password,
                        score     |-> result.score,
                        level     |-> result.level,
                        feedback  |-> result.feedback,
                        entropy   |-> result.entropy,
                        crackTime |-> result.crackTime]]

(* ------------------------------ inputs --------------------------------- *)

\* options.length: negative, zero, below and above the number of classes
RequestedLengths == -1..MaxLength
FullOptions ==
    [length : RequestedLengths, uppercase : BOOLEAN, lowercase : BOOLEAN,
     numbers : BOOLEAN, symbols : BOOLEAN, excludeAmbiguous : BOOLEAN]
\* generatePassword() and generatePassword({}): every default applies
EmptyOptions == <<>>
OptionRecords == FullOptions \cup {EmptyOptions}

\* the options and the counts a batch is asked for
BatchOptions ==
    {o \in FullOptions : /\ o.length = MaxLength
                         /\ o.uppercase = o.symbols
                         /\ o.lowercase = o.numbers} \cup {EmptyOptions}
Counts == {-1, 0, 1, 3, BatchLimit, BatchLimit + 1, 150}

\* the strings analyzed: every string of at most MaxPre characters of Alphabet,
\* each followed by one of Pads, and the strings of Examples
MaxPre == 3
Alphabet == {"a", "b", "c", "Z", "1", "!", " "}
RECURSIVE StringsUpTo(_)
StringsUpTo(n) ==
    IF n = 0 THEN {<<>>}
    ELSE LET shorter == StringsUpTo(n - 1)
         IN  shorter \cup {Append(s, c) : s \in shorter, c \in Alphabet}
Pads ==
    {<<>>,
     <<"K","x","9","#">>,
     <<"K","x","9","#","L","m","$","p">>,
     <<"K","x","9","#","L","m","$","p","Q","2","w","R">>,
     <<"K","#","9","x","L","m","$","p","Q","2","w","R","&","v","N","!">>,
     <<"K","#","9","x","L","m","$","p","Q","2","w","R","&","v","N","!","T","z","7","@">>,
     <<"q","w","e","r","t">>,
     <<"A","S","D","F">>,
     <<"z","x","c","v">>,
     <<"2","3">>,
     <<"m","m","m","m","m">>,
     <<"k","d","j","f","h","g","n","v">>,
     <<"k","d","j","f","h","g","n","v","b","t","u","w">>,
     <<"5","8","5","8","5","8","5","8","5","8">>}
Examples ==
    {<<"T","r","0","u","b","4","d","o","r","&","3","x","y","z">>,
     <<"a","b","c","d","e","f">>,
     <<"a","a","a","a","a","a","a","a">>,
     <<"i","n","s","t","a","n","t">>,
     <<"A","d","d"," ","n","u","m","b","e","r","s">>}
Passwords == {pre \o pad : pre \in StringsUpTo(MaxPre), pad \in Pads} \cup Examples

\* the values of body.password: strings, a string over the length limit, and
\* values that are not strings
TooLong == [i \in 1..(MaxPasswordLength + 1) |-> "a"]
BodyPasswords ==
    {[type |-> "string", val |-> s] : s \in StringsUpTo(MaxPre) \cup Examples \cup {TooLong}}
      \cup {[type |-> "undefined"], [type |-> "null"], [type |-> "object"]}
      \cup {[type |-> "number", val |-> n] : n \in {0, 5}}
      \cup {[type |-> "boolean", val |-> b] : b \in BOOLEAN}

(* ------------------------------ actions -------------------------------- *)

Init ==
    /\ call = [op |-> "none"]
    /\ ret = [kind |-> "none"]

\* calls are synchronous and share nothing: the caller makes one call at a
\* time, and takes its result before it makes the next
Idle == call.op = "none"

Return ==
    /\ ~Idle
    /\ call' = [op |-> "none"]
    /\ ret' = [kind |-> "none"]

GeneratePassword ==
    /\ Idle
    /\ \E options \in OptionRecords, tape \in Tapes :
        /\ call' = [op |-> "generatePassword", options |-> options]
        /\ ret' = generatePassword(options, tape, 0)

GenerateBatch ==
    /\ Idle
    /\ \E count \in Counts, options \in BatchOptions, tape \in BatchTapes :
        /\ call' = [op |-> "generateBatch", count |-> count, options |-> options]
        /\ ret' = generateBatch(count, options, tape)

AnalyzeStrength ==
    /\ Idle
    /\ \E password \in Passwords :
        /\ call' = [op |-> "analyzeStrength", password |-> password]
        /\ ret' = analyzeStrength(password)

PostStrength ==
    /\ Idle
    /\ \E v \in BodyPasswords :
        /\ call' = [op |-> "POST /strength", password |-> v]
        /\ ret' = postStrength(v)

NextGenerate == GeneratePassword \/ Return
SpecGenerate == Init /\ [][NextGenerate]_vars

NextBatch == GenerateBatch \/ Return
SpecBatch == Init /\ [][NextBatch]_vars

NextAnalyze == AnalyzeStrength \/ PostStrength \/ Return
SpecAnalyze == Init /\ [][NextAnalyze]_vars

Next == GeneratePassword \/ GenerateBatch \/ AnalyzeStrength \/ PostStrength \/ Return
Spec == Init /\ [][Next]_vars

(* ------------------------- generatePassword properties --------------------- *)

IsGenerate == call.op = "generatePassword"
Opts == Resolve(call.options)
EnabledCount(o) ==
    (IF o.uppercase THEN 1 ELSE 0) + (IF o.lowercase THEN 1 ELSE 0)
      + (IF o.numbers THEN 1 ELSE 0) + (IF o.symbols THEN 1 ELSE 0)
AnyClass(o) == o.uppercase \/ o.lowercase \/ o.numbers \/ o.symbols
Ambiguous == {"I", "O", "l", "0", "1"}
\* a class charset after ambiguous-glyph removal
Effective(chars, o) ==
    Range(chars) \ (IF o.excludeAmbiguous THEN Range(CHARS.ambiguous) ELSE {})
HasCharOf(pw, set) == \E i \in 1..Len(pw) : pw[i] \in set
Covers(pw, o) ==
    /\ o.uppercase => HasCharOf(pw, Effective(CHARS.uppercase, o))
    /\ o.lowercase => HasCharOf(pw, Effective(CHARS.lowercase, o))
    /\ o.numbers => HasCharOf(pw, Effective(CHARS.numbers, o))
    /\ o.symbols => HasCharOf(pw, Effective(CHARS.symbols, o))

\* C1: with at least one class enabled, generatePassword returns a string
\* that holds at least one character of each enabled class's effective
\* charset, whatever the length, the draws and the shuffle
C1_EveryEnabledClassPresent ==
    (IsGenerate /\ AnyClass(Opts)) =>
        (ret.kind = "ok" /\ Covers(ret.password, Opts))
\* all four classes, ambiguous glyphs excluded, fill characters drawn
C1_Witness ==
    /\ IsGenerate /\ ret.kind = "ok"
    /\ EnabledCount(Opts) = 4 /\ Opts.excludeAmbiguous
    /\ Len(ret.password) > 4
    /\ ret.password[1] \in Range(CHARS.symbols)

\* C2: with at least one class enabled, the returned string has length
\* exactly max(requested length, number of enabled classes)
C2_LengthIsMaxOfRequestedAndClasses ==
    (IsGenerate /\ AnyClass(Opts)) =>
        (ret.kind = "ok" /\
         Len(ret.password) = Max(Opts.length, EnabledCount(Opts)))
\* a requested length below the number of enabled classes is widened
C2_Witness ==
    /\ IsGenerate /\ ret.kind = "ok"
    /\ Opts.length = 2 /\ EnabledCount(Opts) = 4
    /\ Len(ret.password) = 4

C4_NoClassFailsBeforeAnyDraw ==
    (IsGenerate /\ ~AnyClass(Opts)) =>
        /\ ret.kind = "error"
        /\ ret.message = "At least one character type must be enabled"
        /\ "password" \notin DOMAIN ret
        /\ ret.draws = 0
C4_Witness ==
    /\ IsGenerate /\ ~AnyClass(Opts)
    /\ Opts.length = MaxLength /\ Opts.excludeAmbiguous
    /\ ret.kind = "error"

(* --------------------------- generateBatch properties ---------------------- *)

IsBatch == call.op = "generateBatch"
BOpts == Resolve(call.options)
\* what one generatePassword(options) call returns: the widened length, every
\* enabled class, and only characters of the enabled classes
OnePassword(pw, o) ==
    /\ Len(pw) = Max(o.length, EnabledCount(o))
    /\ Covers(pw, o)
    /\ \A i \in 1..Len(pw) :
          \/ o.uppercase /\ pw[i] \in Effective(CHARS.uppercase, o)
          \/ o.lowercase /\ pw[i] \in Effective(CHARS.lowercase, o)
          \/ o.numbers /\ pw[i] \in Effective(CHARS.numbers, o)
          \/ o.symbols /\ pw[i] \in Effective(CHARS.symbols, o)
\* the draws one call makes: one per character and one per shuffle step
DrawsOfOne(o) ==
    2 * Max(o.length, EnabledCount(o)) - 1

\* C5: for count >= 1 and valid options generateBatch returns exactly
\* min(count, 100) passwords without error, each the result of its own
\* generatePassword(options) call
C5_BatchHasMinCountPasswords ==
    (IsBatch /\ call.count >= 1 /\ AnyClass(BOpts)) =>
        /\ ret.kind = "ok"
        /\ Len(ret.passwords) = (IF call.count < 100 THEN call.count ELSE 100)
        /\ \A i \in 1..Len(ret.passwords) : OnePassword(ret.passwords[i], BOpts)
        /\ ret.draws = Len(ret.passwords) * DrawsOfOne(BOpts)
\* count = 150 gives 100 passwords, not all of them equal
C5_Witness ==
    /\ IsBatch /\ call.count = 150 /\ ret.kind = "ok"
    /\ Len(ret.passwords) = 100
    /\ ret.passwords[1] # ret.passwords[100]


(* -------------------------- analyzeStrength properties --------------------- *)

IsAnalyze == call.op = "analyzeStrength"
IsPost == call.op = "POST /strength"

\* C6: the score is an integer of 0..10, the sum of the bonuses and penalties
\* clamped once at the end, and the level follows from the clamped score:
\* very_weak 0-2, weak 3-4, fair 5-6, strong 7-8, very_strong 9-10
C6_ScoreClampedLevelByTable ==
    IsAnalyze =>
        LET raw == ScoreSum(call.password)
            s   == ret.score
        IN  /\ s \in 0..10
            /\ s = (IF raw < 0 THEN 0 ELSE IF raw > 10 THEN 10 ELSE raw)
            /\ s \in 0..2 => ret.level = "very_weak"
            /\ s \in 3..4 => ret.level = "weak"
            /\ s \in 5..6 => ret.level = "fair"
            /\ s \in 7..8 => ret.level = "strong"
            /\ s \in 9..10 => ret.level = "very_strong"
\* the penalties outweigh the bonuses and the clamp acts
C6_Witness ==
    /\ IsAnalyze /\ ScoreSum(call.password) < 0
    /\ ret.score = 0 /\ ret.level = "very_weak"

Troubador == <<"T","r","0","u","b","4","d","o","r","&","3","x","y","z">>
FourClasses(password) ==
    /\ HasAny(password, LowerAZ) /\ HasAny(password, UpperAZ)
    /\ HasAny(password, Digit09) /\ HasAny(password, SymbolClass)
NoAddFeedback(feedback) ==
    Range(feedback) \cap {"Add lowercase letters", "Add uppercase letters",
                          "Add numbers", "Add special characters"} = {}

RECURSIVE Join(_)
Join(chars) == IF chars = <<>> THEN "" ELSE Head(chars) \o Join(Tail(chars))

Masked(password, masked) ==
    /\ Len(masked) = Len(password)
    /\ \A i \in 1..Len(password) :
          masked[i] = (IF i <= 3 THEN password[i] ELSE "*")

\* C8 as stated: the masked password has the length of p, its first
\* min(3, |p|) characters are p's, every later one is "*", and no other field
\* of the result contains the original string
C8_Original ==
    IsAnalyze =>
        /\ Masked(call.password, ret.password)
        /\ Join(call.password) \notin Range(ret.feedback)
        /\ Join(call.password) # ret.crackTime

\* the texts analyzeStrength itself writes into feedback and crackTime
FeedbackTexts ==
    {"Password is too short (minimum 8 characters)", "Add lowercase letters",
     "Add uppercase letters", "Add numbers", "Add special characters",
     "Avoid repeated characters", "Mix in numbers and symbols",
     "Include letters and symbols", "Avoid sequential patterns",
     "Avoid keyboard patterns", "Password looks strong!"}
CrackTimeTexts ==
    {"instant", "billions of years"}
      \cup {ToString(n) \o unit :
               n \in 0..1000,
               unit \in {" seconds", " minutes", " hours", " days", " years",
                         " thousand years", " million years"}}

\* C8 amended: the masked password has the length of p, its first min(3, |p|)
\* characters are p's and every later one is "*"; no feedback entry and no
\* crack time is the original string unless the original string is itself one
\* of the analyzer's own feedback or crack-time texts
C8_MaskedAndNoCopyUnlessOwnText ==
    IsAnalyze =>
        /\ Masked(call.password, ret.password)
        /\ Range(ret.feedback) \subseteq FeedbackTexts
        /\ ret.crackTime \in CrackTimeTexts
        /\ Join(call.password) \notin (FeedbackTexts \cup CrackTimeTexts) =>
              /\ Join(call.password) \notin Range(ret.feedback)
              /\ Join(call.password) # ret.crackTime
\* "abcdef" is returned as "abc***"
C8_Witness ==
    /\ IsAnalyze /\ call.password = <<"a","b","c","d","e","f">>
    /\ ret.password = <<"a","b","c","*","*","*">>

\* C9 as stated: the analyze operation, given an empty string, no password or
\* a password that is not a string, fails with a validation error and produces
\* no StrengthResult
C9_Original ==
    /\ (IsAnalyze /\ call.password = <<>>) => ret.kind = "error"
    /\ (IsPost /\ (call.password.type # "string" \/ call.password.val = <<>>)) =>
          ret.status = 400
\* C9 amended: the POST /strength handler, given an empty string, no password
\* or a password that is not a string, fails with the validation error
\* "Password is required" and hands back no StrengthResult; analyzeStrength
\* itself validates nothing and returns a StrengthResult for the empty string
\* (score 0, very_weak, empty masked password)
C9_HandlerRejectsAnalyzerDoesNot ==
    /\ (IsPost /\ (call.password.type # "string" \/ call.password.val = <<>>)) =>
          /\ ret.status = 400
          /\ ret.body = [success |-> FALSE, error |-> "Password is required"]
    /\ (IsAnalyze /\ call.password = <<>>) =>
          /\ ret.kind = "ok"
          /\ ret.password = <<>>
          /\ ret.score = 0
          /\ ret.level = "very_weak"
\* the empty string was posted and rejected
C9_Witness ==
    /\ IsPost /\ call.password = [type |-> "string", val |-> <<>>]
    /\ ret.status = 400

\* C10: the score never exceeds 8, so the level is never "very_strong"
C10_ScoreAtMostEight ==
    /\ IsAnalyze => (ret.score <= 8 /\ ret.level # "very_strong")
    /\ (IsPost /\ ret.status = 200) =>
          (ret.body.score <= 8 /\ ret.body.level # "very_strong")
\* the best case: 20 characters or more, the four classes, no penalty
C10_Witness ==
    /\ IsAnalyze /\ Len(call.password) >= 20 /\ FourClasses(call.password)
    /\ Penalties(call.password) = 0
    /\ ret.score = 8 /\ ret.level = "strong"

=============================================================================
